---- MODULE Spec2Model ----
(***************************************************************************)
(* A model of quiz.py: the quiz generation function generate_quiz and the  *)
(* Streamlit script around it (session state initialisation and the five   *)
(* buttons Shuffle Questions, Show Answer, Hide Answer, Previous, Next).   *)
(*                                                                         *)
(* A question is a row [question, difficulty]; `question` stands for the   *)
(* row's content (text, options, correct answer), which no operation       *)
(* changes.  The random draws of DataFrame.sample are inputs: each call    *)
(* takes a seed from Seeds and Permute decodes the seed into a             *)
(* permutation.                                                            *)
(***************************************************************************)
EXTENDS Integers, Sequences, FiniteSets, TLC

VARIABLES
    quiz_questions_csv,  \* the rows of quiz_questions.csv (read-only input)
    session_state,       \* st.session_state: a function from the keys set so far
    pc,                  \* "start": no run yet; "ready": the script ran to its
                         \* end and the page is rendered; "failed": the run raised
    pressed,             \* label of the button the user pressed last ("" at first)
    clicked,             \* whether st.button returned True for that press
    page,                \* what the page shows once the script has stopped running
    call,                \* arguments of a direct call of generate_quiz (SpecGen)
    ret,                 \* what generate_quiz returned or raised (SpecGen, SpecE2E)
    step                 \* position in the end-to-end scenario (SpecE2E)

vars ==
    <<quiz_questions_csv, session_state, pc, pressed, clicked, page, call, ret, step>>

----------------------------------------------------------------------------
(* Bounds of the model and literals of the program.                        *)

\* Largest number of questions of one difficulty in a repository.
MaxPool == 5
\* Seeds of one random draw are 0..MaxSeed.
MaxSeed == 1
\* Counts passed to a direct call of generate_quiz are 0..MaxCount.
MaxCount == 5

\* The literal n of the three .sample(n=4) calls.
EasyN == 4
MediumN == 4
HardN == 4

Seeds == 0..MaxSeed
PoolSizes == (EasyN - 1)..MaxPool
Counts == 0..MaxCount

----------------------------------------------------------------------------
(* The repository (the DataFrame load_questions returns).                  *)

Row(q, d) == [question |-> q, difficulty |-> d]

\* e rows tagged easy, m tagged medium and p tagged `third`, in file order.
Repository(e, m, p, third) ==
    [i \in 1..(e + m + p) |->
        Row(i, IF i <= e THEN "easy" ELSE IF i <= e + m THEN "medium" ELSE third)]

\* The files the program may be started on: the hardest tier is tagged
\* either "medium+" or "hard".
Repositories ==
    {Repository(e, m, p, t) : e \in PoolSizes, m \in PoolSizes, p \in PoolSizes,
                              t \in {"medium+", "hard"}}

load_questions == quiz_questions_csv

\* df[df['difficulty'] == tag]
Filter(df, tag) == SelectSeq(df, LAMBDA r : r.difficulty = tag)

----------------------------------------------------------------------------
(* DataFrame.sample.                                                       *)

Rotate(s, k) == SubSeq(s, k + 1, Len(s)) \o SubSeq(s, 1, k)

\* The permutation of s that the draw `seed` selects: the first row is chosen
\* by seed % Len(s), the rest by the remaining digits of the seed.  Seeds
\* 0..Len(s)!-1 give every permutation of s.
RECURSIVE Permute(_, _)
Permute(s, seed) ==
    IF Len(s) <= 1 THEN s
    ELSE LET r == Rotate(s, seed % Len(s))
         IN  <<Head(r)>> \o Permute(Tail(r), seed \div Len(s))

\* rows.sample(n=n): n rows without replacement; ValueError when n > len(rows).
SampleRaises(rows, n) == n > Len(rows)
Sample(rows, n, seed) == SubSeq(Permute(rows, seed), 1, n)

\* .sample(frac=1) left out: the rows stay in their order.
SampleAllKeepsOrder(rows, seed) == rows

\* rows.sample(frac=1): all rows in random order.
SampleAll(rows, seed) == Permute(rows, seed)

\* quiz['question_num'] = range(1, len(quiz) + 1)
Number(q) ==
    [i \in 1..Len(q) |->
        [question |-> q[i].question, difficulty |-> q[i].difficulty,
         question_num |-> i]]

----------------------------------------------------------------------------
(* generate_quiz.                                                          *)

Rngs == Seeds \X Seeds \X Seeds \X Seeds

\* generate_quiz filtering the hardest tier on the tag hard.
generate_quizHardTag(df, num_easy, num_medium, num_hard, rng) ==
    LET easyPool   == Filter(df, "easy")
        mediumPool == Filter(df, "medium")
        hardPool   == Filter(df, "hard")
    IN  IF \/ SampleRaises(easyPool, EasyN)
           \/ SampleRaises(mediumPool, MediumN)
           \/ SampleRaises(hardPool, HardN)
        THEN [raised |-> TRUE, quiz |-> <<>>]
        ELSE LET easy   == Sample(easyPool, EasyN, rng[1])
                 medium == Sample(mediumPool, MediumN, rng[2])
                 hard   == Sample(hardPool, HardN, rng[3])
                 quiz   == SampleAll(easy \o medium \o hard, rng[4])
             IN  [raised |-> FALSE, quiz |-> Number(quiz)]

\* generate_quiz(df, num_easy, num_medium, num_hard); rng holds the draws of
\* its four .sample calls.  The result is [raised, quiz]: raised when a
\* .sample(n=...) call raises ValueError, and then quiz is empty.
generate_quiz(df, num_easy, num_medium, num_hard, rng) ==
    LET easyPool   == Filter(df, "easy")
        mediumPool == Filter(df, "medium")
        hardPool   == Filter(df, "medium+")
    IN  IF \/ SampleRaises(easyPool, EasyN)
           \/ SampleRaises(mediumPool, MediumN)
           \/ SampleRaises(hardPool, HardN)
        THEN [raised |-> TRUE, quiz |-> <<>>]
        ELSE LET easy   == Sample(easyPool, EasyN, rng[1])
                 medium == Sample(mediumPool, MediumN, rng[2])
                 hard   == Sample(hardPool, HardN, rng[3])
                 quiz   == SampleAll(easy \o medium \o hard, rng[4])
             IN  [raised |-> FALSE, quiz |-> Number(quiz)]

----------------------------------------------------------------------------
(* The script: session state initialisation and the button handlers.       *)

NoKeys == [k \in {} |-> FALSE]

\* SessionInit with the two flags set before the quiz is generated.
SessionInitFlagsFirst(ss, df, rng) ==
    IF "quiz" \in DOMAIN ss
    THEN [raised |-> FALSE, state |-> ss]
    ELSE LET r == generate_quiz(df, 4, 4, 4, rng)
         IN  IF r.raised
             THEN [raised |-> TRUE,
                   state |-> [show_answer |-> FALSE, current_question |-> 0]]
             ELSE [raised |-> FALSE,
                   state |-> [quiz |-> r.quiz, show_answer |-> FALSE,
                              current_question |-> 0]]

\* SessionInit without the `if 'quiz' not in st.session_state` test.
SessionInitEveryRun(ss, df, rng) ==
    LET r == generate_quiz(df, 4, 4, 4, rng)
    IN  IF r.raised
        THEN [raised |-> TRUE, state |-> ss]
        ELSE [raised |-> FALSE,
              state |-> [quiz |-> r.quiz, show_answer |-> FALSE,
                         current_question |-> 0]]

\* The block under `if 'quiz' not in st.session_state`, run at the top of
\* every run of the script.  The result is [raised, state].
SessionInit(ss, df, rng) ==
    IF "quiz" \in DOMAIN ss
    THEN [raised |-> FALSE, state |-> ss]
    ELSE LET r == generate_quiz(df, 4, 4, 4, rng)
         IN  IF r.raised
             THEN [raised |-> TRUE, state |-> ss]
             ELSE [raised |-> FALSE,
                   state |-> [quiz |-> r.quiz, show_answer |-> FALSE,
                              current_question |-> 0]]

\* The draws a run of the script consumes: none once the quiz exists.
RunDraws(ss) == IF "quiz" \in DOMAIN ss THEN {<<0, 0, 0, 0>>} ELSE Rngs

\* OnShuffle drawing one row fewer than the quiz holds.
OnShuffleDropsRow(ss, seed) ==
    [ss EXCEPT !.quiz = Number(Sample(ss.quiz, Len(ss.quiz) - 1, seed)),
               !.current_question = 0,
               !.show_answer = FALSE]

\* OnShuffle without the reset of current_question.
OnShuffleKeepsPosition(ss, seed) ==
    [ss EXCEPT !.quiz = Number(SampleAll(ss.quiz, seed)),
               !.show_answer = FALSE]

\* OnShuffle without the renumbering of the questions.
OnShuffleNoRenumber(ss, seed) ==
    [ss EXCEPT !.quiz = SampleAll(ss.quiz, seed),
               !.current_question = 0,
               !.show_answer = FALSE]

\* The body of `if st.button("Shuffle Questions")`.
OnShuffle(ss, seed) ==
    [ss EXCEPT !.quiz = Number(SampleAll(ss.quiz, seed)),
               !.current_question = 0,
               !.show_answer = FALSE]

\* OnShowAnswer as a toggle.
OnShowAnswerToggles(ss) == [ss EXCEPT !.show_answer = ~@]

\* The body of `if st.button("Show Answer")`.
OnShowAnswer(ss) == [ss EXCEPT !.show_answer = TRUE]

\* OnHideAnswer going back to the first question as well.
OnHideAnswerResets(ss) == [ss EXCEPT !.show_answer = FALSE, !.current_question = 0]

\* The body of `if st.button("Hide Answer")`.
OnHideAnswer(ss) == [ss EXCEPT !.show_answer = FALSE]

\* The Previous button without disabled=.
PreviousNeverDisabled(ss) == FALSE

\* OnPrevious without the decrement.
OnPreviousStays(ss) == [ss EXCEPT !.show_answer = FALSE]

\* disabled= of the Previous button, and the body of its `if`.
PreviousDisabled(ss) == ss.current_question = 0
OnPrevious(ss) ==
    [ss EXCEPT !.current_question = @ - 1, !.show_answer = FALSE]

\* The Next button without disabled=, and disabled one question early.
NextNeverDisabled(ss) == FALSE
NextDisabledEarly(ss) == ss.current_question >= Len(ss.quiz) - 2

\* OnNext moving two questions on.
OnNextSkips(ss) ==
    [ss EXCEPT !.current_question = @ + 2, !.show_answer = FALSE]

\* OnNext without hiding the answer.
OnNextKeepsAnswer(ss) == [ss EXCEPT !.current_question = @ + 1]

\* disabled= of the Next button, and the body of its `if`.
NextDisabled(ss) == ss.current_question = Len(ss.quiz) - 1
OnNext(ss) ==
    [ss EXCEPT !.current_question = @ + 1, !.show_answer = FALSE]

\* current = quiz.iloc[current_question]: positional, a negative position
\* counts from the end, and a position outside -len..len-1 raises IndexError.
IlocRaises(q, i) == i >= Len(q) \/ i < -Len(q)
Iloc(q, i) == IF i >= 0 THEN q[i + 1] ELSE q[Len(q) + i + 1]
Current(ss) == Iloc(ss.quiz, ss.current_question)

(* What the page shows: the subheader "Question X of N" (line 163, above   *)
(* the buttons, so computed from the session state cs the run started on), *)
(* then, below the buttons, the current question and, if show_answer, its  *)
(* correct answer (computed from the session state bs the handlers left).  *)
(* The correct answer is part of the row's content.                        *)
Page(cs, bs) ==
    [counter  |-> <<cs.current_question + 1, Len(cs.quiz)>>,
     question |-> Current(bs).question,
     answer   |-> IF bs.show_answer THEN <<Current(bs).question>> ELSE <<>>]

\* The page of a run that raised, and the page before the first run.
NoPage == [counter |-> <<>>, question |-> 0, answer |-> <<>>]

\* A handler without st.rerun(): the run goes on below the buttons, and the
\* subheader it rendered above them stays as computed before the handler.
CounterStateNoRerun(pre, post) == pre

\* st.rerun() ends every handler: the run in which the button returned True
\* (started on session state pre) is abandoned, and the run the user sees
\* starts on the session state post the handler left.
CounterState(pre, post) == post

(* One run of the script from the top on session state ss: the             *)
(* initialisation block, then the page.  st.rerun() at the end of every    *)
(* handler starts such a run.                                              *)
Run(ss, rng) ==
    LET r == SessionInit(ss, load_questions, rng)
    IN  /\ session_state' = r.state
        /\ pc' = IF r.raised \/ IlocRaises(r.state.quiz, r.state.current_question)
                THEN "failed" ELSE "ready"

\* The first run of a session.
FirstRunStep ==
    /\ pc = "start"
    /\ \E rng \in RunDraws(session_state) : Run(session_state, rng)
    /\ page' = IF pc' = "failed" THEN NoPage
               ELSE Page(session_state', session_state')
    /\ pressed' = ""
    /\ clicked' = FALSE
    /\ UNCHANGED quiz_questions_csv

\* A press of an enabled button: its handler, then the rerun.
Click(label, ss) ==
    /\ \E rng \in RunDraws(ss) : Run(ss, rng)
    /\ page' = IF pc' = "failed" THEN NoPage
               ELSE Page(CounterState(session_state, session_state'), session_state')
    /\ pressed' = label
    /\ clicked' = TRUE
    /\ UNCHANGED quiz_questions_csv

\* A press of a disabled button: nothing reaches the script.
Ignored(label) ==
    /\ pressed' = label
    /\ clicked' = FALSE
    /\ UNCHANGED <<quiz_questions_csv, session_state, pc, page>>

ShuffleStep ==
    /\ pc = "ready"
    /\ \E seed \in Seeds : Click("Shuffle Questions", OnShuffle(session_state, seed))

ShowAnswerStep ==
    /\ pc = "ready"
    /\ Click("Show Answer", OnShowAnswer(session_state))

HideAnswerStep ==
    /\ pc = "ready"
    /\ Click("Hide Answer", OnHideAnswer(session_state))

PreviousStep ==
    /\ pc = "ready"
    /\ IF PreviousDisabled(session_state)
       THEN Ignored("Previous")
       ELSE Click("Previous", OnPrevious(session_state))

NextStep ==
    /\ pc = "ready"
    /\ IF NextDisabled(session_state)
       THEN Ignored("Next")
       ELSE Click("Next", OnNext(session_state))

----------------------------------------------------------------------------
(* Spec: one session of the application.                                   *)

Init ==
    /\ quiz_questions_csv \in Repositories
    /\ session_state = NoKeys
    /\ pc = "start"
    /\ pressed = ""
    /\ clicked = FALSE
    /\ page = NoPage
    /\ call = NoKeys
    /\ ret = NoKeys
    /\ step = 0

FirstRun == FirstRunStep /\ UNCHANGED <<call, ret, step>>
Shuffle == ShuffleStep /\ UNCHANGED <<call, ret, step>>
ShowAnswer == ShowAnswerStep /\ UNCHANGED <<call, ret, step>>
HideAnswer == HideAnswerStep /\ UNCHANGED <<call, ret, step>>
Previous == PreviousStep /\ UNCHANGED <<call, ret, step>>
Next_ == NextStep /\ UNCHANGED <<call, ret, step>>

Next == FirstRun \/ Shuffle \/ ShowAnswer \/ HideAnswer \/ Previous \/ Next_

Spec == Init /\ [][Next]_vars

----------------------------------------------------------------------------
(* SpecGen: one direct call of generate_quiz on a repository, with any     *)
(* counts.                                                                 *)

CallGenerate ==
    /\ "df" \notin DOMAIN call
    /\ \E ne \in Counts, nm \in Counts, nh \in Counts, rng \in Rngs :
          /\ call' = [df |-> load_questions, num_easy |-> ne,
                      num_medium |-> nm, num_hard |-> nh]
          /\ ret' = generate_quiz(load_questions, ne, nm, nh, rng)
    /\ UNCHANGED <<quiz_questions_csv, session_state, pc, pressed, clicked, page, step>>

NextGen == CallGenerate

SpecGen == Init /\ [][NextGen]_vars

----------------------------------------------------------------------------
(* SpecE2E: the end-to-end scenario.  The repository holds 10 questions of *)
(* each tier; the session starts, Next is pressed 12 times, Previous once  *)
(* and Shuffle Questions once.                                             *)

ScenarioRepositories ==
    {Repository(10, 10, 10, t) : t \in {"medium+", "hard"}}

InitE2E ==
    /\ quiz_questions_csv \in ScenarioRepositories
    /\ session_state = NoKeys
    /\ pc = "start"
    /\ pressed = ""
    /\ clicked = FALSE
    /\ page = NoPage
    /\ call = NoKeys
    /\ ret = NoKeys
    /\ step = 0

\* The scenario keeps in ret the quiz the session start generated.
ScenarioStart ==
    /\ step = 0
    /\ FirstRunStep
    /\ step' = step + 1
    /\ ret' = IF "quiz" \in DOMAIN session_state'
              THEN [raised |-> FALSE, quiz |-> session_state'.quiz]
              ELSE [raised |-> TRUE, quiz |-> <<>>]
    /\ UNCHANGED call
ScenarioAdvance ==
    step \in 1..12 /\ NextStep /\ step' = step + 1 /\ UNCHANGED <<call, ret>>
ScenarioRetreat ==
    step = 13 /\ PreviousStep /\ step' = step + 1 /\ UNCHANGED <<call, ret>>
ScenarioReshuffle ==
    step = 14 /\ ShuffleStep /\ step' = step + 1 /\ UNCHANGED <<call, ret>>

NextE2E == ScenarioStart \/ ScenarioAdvance \/ ScenarioRetreat \/ ScenarioReshuffle

SpecE2E == InitE2E /\ [][NextE2E]_vars

----------------------------------------------------------------------------
(* SpecPerm: the two reorderings, as functions of their input.  The input  *)
(* is what generate_quiz hands to its final .sample(frac=1), the           *)
(* concatenation of the easy, medium and medium+ samples (here of up to    *)
(* MaxLen rows in all); the draw ranges over every value that matters for  *)
(* a sequence of that length.                                              *)

\* Longest sequence reordered in SpecPerm.
MaxLen == 3

RECURSIVE Factorial(_)
Factorial(n) == IF n <= 1 THEN 1 ELSE n * Factorial(n - 1)

\* The draws of one .sample(frac=1) on n rows.
Draws(n) == 0..(Factorial(n) - 1)

Concatenations ==
    {Repository(t[1], t[2], t[3], "medium+") :
        t \in {u \in (0..MaxLen) \X (0..MaxLen) \X (0..MaxLen) :
                  u[1] + u[2] + u[3] <= MaxLen}}

InitPerm ==
    /\ quiz_questions_csv = <<>>
    /\ session_state = NoKeys
    /\ pc = "start"
    /\ pressed = ""
    /\ clicked = FALSE
    /\ page = NoPage
    /\ call \in {[rows |-> rows] : rows \in Concatenations}
    /\ ret = NoKeys
    /\ step = 0

\* Steps 5 and 6 of generate_quiz on the concatenation call.rows.
FinalPermutation ==
    /\ ret = NoKeys
    /\ \E seed \in Draws(Len(call.rows)) :
          ret' = [by |-> "generate_quiz", quiz |-> Number(SampleAll(call.rows, seed))]
    /\ UNCHANGED <<quiz_questions_csv, session_state, pc, pressed, clicked, page,
                   call, step>>

\* The Shuffle Questions handler on a session whose quiz is call.rows.
Reshuffle ==
    /\ ret = NoKeys
    /\ \E seed \in Draws(Len(call.rows)) :
          ret' = [by |-> "Shuffle Questions",
                  quiz |-> OnShuffle([quiz |-> Number(call.rows),
                                      show_answer |-> FALSE,
                                      current_question |-> 0], seed).quiz]
    /\ UNCHANGED <<quiz_questions_csv, session_state, pc, pressed, clicked, page,
                   call, step>>

NextPerm == FinalPermutation \/ Reshuffle

SpecPerm == InitPerm /\ [][NextPerm]_vars

----------------------------------------------------------------------------
(* Vocabulary of the claims.                                               *)

Initialised == DOMAIN session_state = {"quiz", "show_answer", "current_question"}

\* The questions of a quiz or repository, without their numbers.
Members(q) == {Row(q[i].question, q[i].difficulty) : i \in DOMAIN q}
NoDuplicates(q) == Cardinality(Members(q)) = Len(q)
CountTag(q, tag) == Len(Filter(q, tag))

Called == "df" \in DOMAIN call
\* The tag the code gives the hardest tier.
HardestTag == "medium+"
PoolsSuffice ==
    /\ call.num_easy <= CountTag(call.df, "easy")
    /\ call.num_medium <= CountTag(call.df, "medium")
    /\ call.num_hard <= CountTag(call.df, HardestTag)

----------------------------------------------------------------------------
(* C1..C2: generate_quiz, under SpecGen.                                   *)

\* C1: whenever every tier's pool holds at least the requested count,
\* generate_quiz returns easy+medium+hard questions, exactly the requested
\* number of each tier, none of them twice.
C1_GenerateHonoursCounts ==
    (Called /\ PoolsSuffice) =>
        /\ ~ret.raised
        /\ Len(ret.quiz) = call.num_easy + call.num_medium + call.num_hard
        /\ CountTag(ret.quiz, "easy") = call.num_easy
        /\ CountTag(ret.quiz, "medium") = call.num_medium
        /\ CountTag(ret.quiz, HardestTag) = call.num_hard
        /\ NoDuplicates(ret.quiz)

\* C2: generate_quiz raises whenever a requested count exceeds its tier's
\* pool, and a quiz it returns never holds fewer questions of a tier than
\* were requested.
C2_GenerateFailsOnShortPool ==
    Called =>
        /\ ~PoolsSuffice => ret.raised
        /\ ~ret.raised =>
              /\ CountTag(ret.quiz, "easy") >= call.num_easy
              /\ CountTag(ret.quiz, "medium") >= call.num_medium
              /\ CountTag(ret.quiz, HardestTag) >= call.num_hard

----------------------------------------------------------------------------
(* C3..C9: the session, under Spec.                                        *)

\* C3: when generation fails at session start, session_state holds none of
\* quiz, show_answer, current_question; the session is never partially
\* initialised, and no button press is ever applied to a session that is
\* not fully initialised.
C3_FailedStartLeavesSessionUntouched ==
    /\ pc = "failed" => DOMAIN session_state = {}
    /\ DOMAIN session_state = {} \/ Initialised
    /\ pressed # "" => Initialised

C3_Witness ==
    /\ pc = "failed"
    /\ CountTag(quiz_questions_csv, "easy") < EasyN

\* C4: in every state of an initialised session
\* 0 <= current_question < len(quiz), so quiz.iloc[current_question] is in
\* bounds.
C4_PositionInBounds ==
    "quiz" \in DOMAIN session_state =>
        /\ 0 <= session_state.current_question
        /\ session_state.current_question < Len(session_state.quiz)
        /\ ~IlocRaises(session_state.quiz, session_state.current_question)

C4_Witness ==
    /\ pc = "ready"
    /\ pressed = "Next"
    /\ clicked
    /\ session_state.current_question = Len(session_state.quiz) - 1

\* C5: a press of Next at the last index, and a press of Previous at index
\* 0, leave the whole session state (quiz, current_question, show_answer)
\* unchanged.
C5_BoundaryPressIsNoOp ==
    [][(/\ pc = "ready"
        /\ \/ /\ pressed' = "Next"
              /\ session_state.current_question = Len(session_state.quiz) - 1
           \/ /\ pressed' = "Previous"
              /\ session_state.current_question = 0)
       => (session_state' = session_state /\ pc' = "ready")]_vars

C5_Witness ==
    /\ pc = "ready"
    /\ pressed = "Next"
    /\ ~clicked
    /\ session_state.show_answer
    /\ session_state.current_question = Len(session_state.quiz) - 1

\* C6: Shuffle Questions keeps the members of the quiz: the set and the
\* number of questions after it equal those before it, and no question
\* occurs twice.
C6_ShufflePreservesMembers ==
    [][(pc = "ready" /\ pressed' = "Shuffle Questions")
       => /\ Members(session_state'.quiz) = Members(session_state.quiz)
          /\ Len(session_state'.quiz) = Len(session_state.quiz)
          /\ NoDuplicates(session_state'.quiz)]_vars

C6_Witness ==
    /\ pressed = "Shuffle Questions"
    /\ clicked
    /\ Len(session_state.quiz) = EasyN + MediumN + HardN
    /\ session_state.quiz[1].difficulty # session_state.quiz[2].difficulty

\* C7: Shuffle Questions always ends with current_question = 0 and
\* show_answer = false.
C7_ShuffleResets ==
    pressed = "Shuffle Questions" =>
        /\ session_state.current_question = 0
        /\ session_state.show_answer = FALSE

C7_Witness ==
    /\ pressed = "Shuffle Questions"
    /\ pc = "ready"
    /\ session_state.current_question = 0
    /\ ~session_state.show_answer

\* C8: show_answer is false right after every applied Next, Previous and
\* Shuffle Questions.
C8_NavigationHidesAnswer ==
    (clicked /\ pressed \in {"Next", "Previous", "Shuffle Questions"}) =>
        session_state.show_answer = FALSE

C8_Witness ==
    /\ clicked
    /\ pressed = "Previous"
    /\ session_state.current_question > 0
    /\ ~session_state.show_answer

\* C9: Show Answer sets show_answer to true and Hide Answer sets it to false
\* whatever it was, and a second press in a row of either leaves the session
\* state as the first press left it.
C9_RevealConcealIdempotent ==
    [][/\ (pc = "ready" /\ pressed' = "Show Answer") =>
              /\ session_state'.show_answer = TRUE
              /\ pressed = "Show Answer" => session_state' = session_state
       /\ (pc = "ready" /\ pressed' = "Hide Answer") =>
              /\ session_state'.show_answer = FALSE
              /\ pressed = "Hide Answer" => session_state' = session_state]_vars

C9_Witness ==
    /\ pressed = "Show Answer"
    /\ clicked
    /\ session_state.show_answer
    /\ session_state.current_question > 0

----------------------------------------------------------------------------
(* C10: the end-to-end scenario, under SpecE2E.                            *)

ScenarioStates(hardTag) ==
    /\ step >= 1 =>
          /\ pc = "ready"
          /\ Initialised
          /\ Len(session_state.quiz) = 12
          /\ CountTag(session_state.quiz, "easy") = 4
          /\ CountTag(session_state.quiz, "medium") = 4
          /\ CountTag(session_state.quiz, hardTag) = 4
          /\ Members(session_state.quiz) = Members(ret.quiz)
    /\ step \in 1..12 => session_state.current_question = step - 1
    /\ step = 13 => session_state.current_question = 11
    /\ step = 14 => session_state.current_question = 10
    /\ step = 15 =>
          /\ session_state.current_question = 0
          /\ session_state.show_answer = FALSE

\* C10 as stated: with 10 questions tagged easy, 10 tagged medium and 10
\* tagged hard, the session starts with 12 questions, 4 of each tag; 11
\* presses of Next reach position 11, a 12th leaves it at 11, Previous gives
\* 10, and Shuffle Questions gives position 0, the answer hidden and the
\* same 12 members.
C10_ScenarioAsStated ==
    CountTag(quiz_questions_csv, "hard") = 10 => ScenarioStates("hard")

\* C10, amended: the same scenario on a repository whose 10 questions of the
\* hardest tier are tagged medium+, the tag the code filters on.
C10_Scenario ==
    CountTag(quiz_questions_csv, HardestTag) = 10 => ScenarioStates(HardestTag)

C10_Witness ==
    /\ CountTag(quiz_questions_csv, HardestTag) = 10
    /\ step = 15
    /\ pressed = "Shuffle Questions"
    /\ session_state.current_question = 0
    /\ session_state.quiz # ret.quiz

----------------------------------------------------------------------------
(* C11..C20: the session, under Spec (C17 under SpecPerm).                 *)

\* C11: the session is initialised once: the first run leaves position 0,
\* the answer hidden and a freshly generated quiz, and no later run (after
\* any button press) generates again: the members of the quiz never change.
C11_InitialisedOnce ==
    [][/\ (pc = "start" /\ pc' = "ready") =>
              /\ session_state'.current_question = 0
              /\ session_state'.show_answer = FALSE
              /\ Len(session_state'.quiz) = EasyN + MediumN + HardN
              /\ NoDuplicates(session_state'.quiz)
              /\ Members(session_state'.quiz) \subseteq Members(quiz_questions_csv)
       /\ pc = "ready" =>
              /\ pc' = "ready"
              /\ Members(session_state'.quiz) = Members(session_state.quiz)]_vars

\* A rerun after a press, on a quiz holding a question that the draws of a
\* rerun (all 0) would not select.
C11_Witness ==
    /\ pc = "ready"
    /\ clicked
    /\ CountTag(quiz_questions_csv, "easy") = EasyN + 1
    /\ \E i \in DOMAIN session_state.quiz :
          session_state.quiz[i].question = EasyN + 1

\* post is a session state the handler of the button `label` can leave
\* from ss.
IsTransition(label, ss, post) ==
    CASE label = "Shuffle Questions" -> \E seed \in Seeds : post = OnShuffle(ss, seed)
      [] label = "Show Answer" -> post = OnShowAnswer(ss)
      [] label = "Hide Answer" -> post = OnHideAnswer(ss)
      [] label = "Previous" -> post = OnPrevious(ss)
      [] label = "Next" -> post = OnNext(ss)
      [] OTHER -> FALSE

\* C12: a button press applies exactly one of the five transitions (none if
\* the button is disabled), and the page the user then sees (question
\* counter, question, answer box) is computed from the session state after
\* that transition.
C12_PageShowsPostState ==
    [][/\ pc' = "ready" => page' = Page(session_state', session_state')
       /\ pc = "ready" =>
              IF clicked'
              THEN IsTransition(pressed', session_state, session_state')
              ELSE session_state' = session_state]_vars

C12_Witness ==
    /\ pc = "ready"
    /\ pressed = "Next"
    /\ clicked
    /\ page.counter = <<2, EasyN + MediumN + HardN>>
    /\ page.question = session_state.quiz[2].question

\* C13: in every state the question at index i of the quiz carries
\* question_num i+1 (rows are numbered 1..N in display order), after
\* generation and after every shuffle.
C13_NumberedInOrder ==
    "quiz" \in DOMAIN session_state =>
        \A i \in DOMAIN session_state.quiz :
            /\ session_state.quiz[i].question_num = i
            /\ Iloc(session_state.quiz, i - 1).question_num = i

C13_Witness ==
    /\ pressed = "Shuffle Questions"
    /\ clicked
    /\ session_state.quiz[1].difficulty = HardestTag
    /\ session_state.quiz[1].question_num = 1
    /\ session_state.quiz[2].difficulty = "easy"

\* C14: an enabled Next (position < len-1) increases current_question by
\* exactly 1 and an enabled Previous (position > 0) decreases it by exactly
\* 1; both leave the quiz (members, order, numbers) unchanged.
C14_NavigationMovesByOne ==
    [][/\ (/\ pc = "ready"
           /\ pressed' = "Next"
           /\ session_state.current_question < Len(session_state.quiz) - 1) =>
              /\ session_state'.current_question = session_state.current_question + 1
              /\ session_state'.quiz = session_state.quiz
       /\ (/\ pc = "ready"
           /\ pressed' = "Previous"
           /\ session_state.current_question > 0) =>
              /\ session_state'.current_question = session_state.current_question - 1
              /\ session_state'.quiz = session_state.quiz]_vars

C14_Witness ==
    /\ pressed = "Previous"
    /\ clicked
    /\ session_state.current_question = 1
    /\ page.counter[1] = 2

\* The session start on a repository whose tiers are tagged easy, medium and
\* hardTag: it succeeds when each tier holds the 4 questions the script asks
\* for, and the quiz then holds 4 questions tagged hardTag and no question
\* of any other tag than the three.
ThirdTierIs(hardTag) ==
    pc # "start" =>
        /\ (/\ CountTag(quiz_questions_csv, "easy") >= 4
            /\ CountTag(quiz_questions_csv, "medium") >= 4
            /\ CountTag(quiz_questions_csv, hardTag) >= 4) => pc = "ready"
        /\ Initialised =>
              /\ CountTag(session_state.quiz, hardTag) = 4
              /\ \A i \in DOMAIN session_state.quiz :
                    session_state.quiz[i].difficulty \in {"easy", "medium", hardTag}

\* C15 as stated: the hardest tier is drawn from the questions tagged hard,
\* and enough questions tagged easy, medium and hard make generation succeed.
C15_ThirdTierTaggedHard == ThirdTierIs("hard")

\* C15, amended: the hardest tier is drawn from the questions tagged medium+,
\* and enough questions tagged easy, medium and medium+ make generation
\* succeed; without 4 questions tagged medium+ it fails.
C15_ThirdTierTaggedMediumPlus ==
    /\ ThirdTierIs("medium+")
    /\ (pc = "ready" => CountTag(quiz_questions_csv, "medium+") >= 4)

C15_Witness ==
    /\ pc = "ready"
    /\ pressed = ""
    /\ CountTag(quiz_questions_csv, "medium+") = HardN + 1
    /\ CountTag(session_state.quiz, "medium+") = HardN

\* The button `label` is on the page and not disabled: the guard of its
\* step.  Only Previous and Next are ever rendered with disabled=.
CanPress(label) ==
    /\ pc = "ready"
    /\ label = "Previous" => ~PreviousDisabled(session_state)
    /\ label = "Next" => ~NextDisabled(session_state)

\* C16: in every state of an initialised session the page is rendered and
\* Show Answer, Hide Answer and Shuffle Questions can be pressed, so the
\* session has no terminal state.
C16_NoTerminalState ==
    Initialised =>
        /\ CanPress("Show Answer")
        /\ CanPress("Hide Answer")
        /\ CanPress("Shuffle Questions")
        /\ CanPress("Previous") \/ CanPress("Next")

C16_Witness ==
    /\ Initialised
    /\ pressed = "Hide Answer"
    /\ clicked
    /\ session_state.current_question = Len(session_state.quiz) - 1

\* The orderings of the rows of s.
Orderings(s) ==
    {[i \in DOMAIN s |-> s[f[i]]] :
        f \in {g \in [DOMAIN s -> DOMAIN s] : \A i, j \in DOMAIN s : g[i] = g[j] => i = j}}

\* C17: the final permutation step of generation can produce every ordering
\* of the sampled questions, interleavings of the tiers included, and
\* Shuffle Questions can produce every ordering of the current members.
C17_EveryOrderingPossible ==
    \A p \in Orderings(call.rows) :
        /\ \E seed \in Draws(Len(call.rows)) :
              Number(SampleAll(call.rows, seed)) = Number(p)
        /\ \E seed \in Draws(Len(call.rows)) :
              OnShuffle([quiz |-> Number(call.rows), show_answer |-> FALSE,
                         current_question |-> 0], seed).quiz = Number(p)

\* An ordering in which a medium question stands between two easy ones.
C17_Witness ==
    /\ "quiz" \in DOMAIN ret
    /\ ret.by = "generate_quiz"
    /\ Len(ret.quiz) = 3
    /\ ret.quiz[1].difficulty = "easy"
    /\ ret.quiz[2].difficulty = "medium"
    /\ ret.quiz[3].difficulty = "easy"

\* C18: Show Answer and Hide Answer change only show_answer: they leave
\* current_question and the quiz (members, order, numbers) unchanged, the
\* page keeps showing the same question, and the answer Show Answer reveals
\* is that of the question at the current position.
C18_RevealConcealFrame ==
    [][(pc = "ready" /\ pressed' \in {"Show Answer", "Hide Answer"}) =>
          /\ session_state'.current_question = session_state.current_question
          /\ session_state'.quiz = session_state.quiz
          /\ page'.counter = page.counter
          /\ page'.question = Current(session_state).question
          /\ page'.answer = IF pressed' = "Show Answer"
                            THEN <<Current(session_state).question>> ELSE <<>>]_vars

C18_Witness ==
    /\ pressed = "Show Answer"
    /\ clicked
    /\ session_state.current_question = Len(session_state.quiz) - 1
    /\ page.answer = <<session_state.quiz[Len(session_state.quiz)].question>>

\* C19: from a position below the last, Next followed by Previous gives the
\* same position and the same quiz with the answer hidden; from a position
\* above 0, Previous followed by Next gives the same position and quiz.
C19_NavigationRoundTrip ==
    pc = "ready" =>
        /\ session_state.current_question < Len(session_state.quiz) - 1 =>
              /\ ~NextDisabled(session_state)
              /\ ~PreviousDisabled(OnNext(session_state))
              /\ OnPrevious(OnNext(session_state)) =
                    [session_state EXCEPT !.show_answer = FALSE]
        /\ session_state.current_question > 0 =>
              /\ ~PreviousDisabled(session_state)
              /\ ~NextDisabled(OnPrevious(session_state))
              /\ OnNext(OnPrevious(session_state)) =
                    [session_state EXCEPT !.show_answer = FALSE]

\* Back at the first question by Previous: Next was pressed before.
C19_Witness ==
    /\ pressed = "Previous"
    /\ clicked
    /\ session_state.current_question = 0
    /\ page.counter[1] = 1

\* The session state after pressing Next or Previous, whichever leads
\* towards position i, until position i is shown or the button is disabled.
RECURSIVE Walk(_, _)
Walk(ss, i) ==
    IF ss.current_question = i THEN ss
    ELSE IF ss.current_question < i
         THEN IF NextDisabled(ss) THEN ss ELSE Walk(OnNext(ss), i)
         ELSE IF PreviousDisabled(ss) THEN ss ELSE Walk(OnPrevious(ss), i)

\* C20: from every state of an initialised session every index
\* 0..len(quiz)-1 is reached by finitely many presses of Next or Previous,
\* and the quiz has the same length in every state.
C20_EveryQuestionReachable ==
    pc = "ready" =>
        /\ Len(session_state.quiz) = EasyN + MediumN + HardN
        /\ \A i \in 0..(Len(session_state.quiz) - 1) :
              /\ Walk(session_state, i).current_question = i
              /\ Walk(session_state, i).quiz = session_state.quiz
              /\ ~IlocRaises(session_state.quiz, i)

C20_Witness ==
    /\ pressed = "Previous"
    /\ clicked
    /\ session_state.current_question = Len(session_state.quiz) - 2
    /\ page.question = session_state.quiz[Len(session_state.quiz) - 1].question

====
